---- MODULE Spec2Model ----
(***************************************************************************)
(* npm-check-updates: the doctor session of src/lib/doctor.ts (iteratively *)
(* installs upgrades and runs tests to identify breaking upgrades) and the *)
(* version target resolution exercised by the run tests.                   *)
(*                                                                         *)
(* A manifest (package.json) is identified by the set of dependencies it   *)
(* declares at their upgraded version; every other dependency of the       *)
(* upgrade map is declared at its current version.  A lock file is a       *)
(* record: absent, an empty file, or the lock of a set of upgraded         *)
(* dependencies.  The installed tree (node_modules) is the set of          *)
(* dependencies installed at their upgraded version.                       *)
(*                                                                         *)
(* External processes (npm/yarn install, npm run prepare, the test         *)
(* command) are spawned and awaited: one action starts the process and     *)
(* one action is its exit, which carries the effect on the working tree.   *)
(***************************************************************************)
EXTENDS Integers, Sequences, FiniteSets, TLC

\* Largest number of entries of the upgrade map returned by run().
MaxDeps == 3
\* Largest number of transient failures of external processes (an install or
\* prepare that fails, a test that fails although no breaking upgrade is
\* installed) in one session.
MaxFailures == 1

Deps == 1..MaxDeps

VARIABLES
  pc,                \* position of the doctor function
  outcome,           \* "Running" or how the session ended
  diag,              \* the diagnostic of a failed session
  options,           \* Options: packageManager, packageData, packageFile, doctorTest
  pkg,               \* package.json as parsed: valid, scripts.test, scripts.prepare
  env,               \* the environment: does an install write a lock file
  breaking,          \* the upgrades whose upgraded version makes the test command fail
  manifest,          \* package.json on disk
  lockDisk,          \* the lock file (lockFileName) on disk
  installed,         \* node_modules
  pkgFile,           \* const pkgFile: the manifest as loaded
  lockFile,          \* let lockFile: the last good lock file, '' if none
  lastPkgFile,       \* let lastPkgFile: the last package file with passing tests
  upgrades,          \* const upgrades: the upgrade map, in its order
  installAllSuccess, \* let installAllSuccess
  idx,               \* position of the for loop in Object.entries(upgrades)
  running,           \* the external processes in flight
  failures,          \* transient failures so far
  log,               \* history: every process spawned and every file written, in order
  accepted,          \* history: upgrades reported with a check mark
  rejected,          \* history: upgrades reported with a cross
  startLock,         \* history: the lock file on disk when the session started
  rpc,               \* position of the resolution of one dependency
  target,            \* options.target
  distTags,          \* the dist-tags of the package in the registry
  current,           \* the version the dependency is declared at
  result,            \* the upgraded versions returned for the dependency
  published,         \* the versions of the package in the registry
  preOption,         \* options.pre: "unset", "true" or "false"
  operator,          \* the range operator of the declared version: "", "^" or "~"
  specifier,         \* what the declared value is: a version, a comment, a protocol
  excluded,          \* the filter options exclude the dependency
  lookups,           \* the cache lookups of one run: key, position, value received
  cache,             \* the resolution cache: an entry per package key
  inflight,          \* the package keys with a registry fetch in flight
  fetches,           \* history: the registry fetches started, per package key
  awaited            \* history: the lookups that awaited a fetch in flight

\* The variables of the doctor session and those of the version resolution.
session == <<pc, outcome, diag, options, pkg, env, breaking, manifest, lockDisk,
             installed, pkgFile, lockFile, lastPkgFile, upgrades,
             installAllSuccess, idx, running, failures, log, accepted, rejected,
             startLock>>
request == <<published, preOption, operator, specifier, excluded>>
resolver == <<rpc, target, distTags, current, result, request>>
caching == <<lookups, cache, inflight, fetches, awaited>>
engine == <<resolver, caching>>

vars == <<pc, outcome, diag, options, pkg, env, breaking, manifest, lockDisk,
          installed, pkgFile, lockFile, lastPkgFile, upgrades, installAllSuccess,
          idx, running, failures, log, accepted, rejected, startLock, engine>>

----------------------------------------------------------------------------
\* Files

Absent == [kind |-> "absent", up |-> {}]
\* The empty string: what lockFile holds when there is no lock file, and the
\* content of a file written from it.
Empty == [kind |-> "empty", up |-> {}]
\* The lock file an install writes for a manifest.
LockOf(m) == [kind |-> "lock", up |-> m]
\* A lock file written before the session that an install would rewrite.
Stale == [kind |-> "stale", up |-> {}]

LockStates == {Absent, Empty, Stale} \cup {LockOf(m) : m \in SUBSET Deps}

Range(s) == {s[k] : k \in 1..Len(s)}

----------------------------------------------------------------------------
\* Collaborators of doctor.ts

\* fs.readFile(lockFileName) of a file that exists: its content, the empty
\* string for an empty file.  It rejects when the file does not exist.
Exists(f) == f.kind # "absent"
ReadFile(f) == f

\* fs.writeFile(lockFileName, content): the file exists afterwards, with that
\* content; writing the empty string leaves an empty file.
WriteFile(content) == content

\* upgradePackageData(pkgData, { [name]: current }, { [name]: version }):
\* the declaration of name is replaced by its upgraded version.
upgradePackageData(pkgData, name) == pkgData \cup {name}

\* run({ ...options, doctor: false }): the upgraded package file run() writes
\* for a non-empty upgrade map.
runUpgraded(pkgData, ups) == pkgData \cup Range(ups)

\* The exit of an external process: success, or a transient failure.
Transient == IF failures < MaxFailures THEN {FALSE} ELSE {}
ProcessExits == {TRUE} \cup Transient
\* The test command fails whenever a breaking upgrade is installed.
TestExits == IF installed \cap breaking # {} THEN {FALSE} ELSE ProcessExits
Count(ok, exits) == IF ok \/ exits = {FALSE} THEN failures ELSE failures + 1

\* "npm install" / "yarn install" / --doctorInstall exiting with success:
\* node_modules follows the package file, and the lock file is written when
\* the package manager keeps one.
InstalledLock(m) == IF env.lockEnabled THEN LockOf(m) ELSE lockDisk

----------------------------------------------------------------------------
\* await: the position of the doctor function after spawning a process is the
\* point that waits for its exit.
NoAwait(awaiting, continuation) == continuation
Await(awaiting, continuation) == awaiting

Spawn(kind, dep, awaiting, continuation) ==
  /\ running' = Append(running, kind)
  /\ log' = Append(log, <<kind, dep>>)
  /\ pc' = Await(awaiting, continuation)

\* The exit of the process the doctor function is waiting for.
Exited(kind, ok) ==
  /\ running # <<>>
  /\ Head(running) = kind
  /\ running' = Tail(running)
  /\ log' = Append(log, <<IF ok THEN "ok" ELSE "failed", 0>>)

Fatal(d) ==
  /\ outcome' = "Fatal"
  /\ diag' = d
  /\ pc' = "exit"

Name == upgrades[idx]

----------------------------------------------------------------------------
\* No resolution is in progress during a doctor session.
RequestDefault ==
  /\ published = {}
  /\ preOption = "unset"
  /\ operator = ""
  /\ specifier = "version"
  /\ excluded = FALSE

\* No lookup is made.
CacheIdle ==
  /\ lookups = <<>>
  /\ cache = <<>>
  /\ inflight = {}
  /\ fetches = <<>>
  /\ awaited = {}

EngineIdle ==
  /\ RequestDefault
  /\ CacheIdle
  /\ rpc = "idle"
  /\ target = [kind |-> "latest", tag |-> "latest"]
  /\ distTags = <<>>
  /\ current = [major |-> 0, minor |-> 0, patch |-> 0, pre |-> FALSE,
                preid |-> "", prenum |-> 0]
  /\ result = {}

Init ==
  /\ EngineIdle
  /\ pc = "load"
  /\ outcome = "Running"
  /\ diag = "none"
  /\ options \in [packageManager : {"npm", "yarn"}, packageData : BOOLEAN,
                  packageFile : BOOLEAN, doctorTest : BOOLEAN]
  /\ pkg \in [valid : BOOLEAN, test : BOOLEAN, prepare : BOOLEAN]
  /\ env \in [lockEnabled : BOOLEAN]
  /\ breaking = {}
  /\ manifest = {}
  /\ lockDisk \in {Absent, Stale, LockOf({})}
  /\ startLock = lockDisk
  /\ installed = {}
  /\ pkgFile = {}
  /\ lockFile = Empty
  /\ lastPkgFile = {}
  /\ upgrades = <<>>
  /\ installAllSuccess = FALSE
  /\ idx = 1
  /\ running = <<>>
  /\ failures = 0
  /\ log = <<>>
  /\ accepted = {}
  /\ rejected = {}

\* assert no --packageData or --packageFile
NothingForbidden == FALSE
Forbidden == options.packageData \/ options.packageFile

\* loadPackageFile: load and validate package file and tests.
loadPackageFile ==
  /\ pc = "load"
  /\ IF Forbidden
       THEN Fatal("packageDataNotAllowed") /\ UNCHANGED pkgFile
     ELSE IF ~pkg.valid
       THEN Fatal("invalidPackageJson") /\ UNCHANGED pkgFile
     ELSE IF ~options.doctorTest /\ ~pkg.test
       THEN Fatal("noTestScript") /\ UNCHANGED pkgFile
     ELSE /\ pkgFile' = manifest
          /\ pc' = "initialInstall"
          /\ UNCHANGED <<outcome, diag>>
  /\ UNCHANGED <<options, pkg, env, breaking, manifest, lockDisk, installed,
                 lockFile, lastPkgFile, upgrades, installAllSuccess, idx,
                 running, failures, log, accepted, rejected, startLock, engine>>

\* initial install
StartInitialInstall ==
  /\ pc = "initialInstall"
  /\ Spawn("install", 0, "awaitInitialInstall", "saveLockFile")
  /\ UNCHANGED <<outcome, diag, options, pkg, env, breaking, manifest, lockDisk,
                 installed, pkgFile, lockFile, lastPkgFile, upgrades,
                 installAllSuccess, idx, failures, accepted, rejected, startLock, engine>>

InitialInstallExit ==
  /\ pc = "awaitInitialInstall"
  /\ \E ok \in ProcessExits :
       /\ Exited("install", ok)
       /\ failures' = Count(ok, ProcessExits)
       /\ IF ok
            THEN /\ installed' = manifest
                 /\ lockDisk' = InstalledLock(manifest)
                 /\ pc' = "saveLockFile"
                 /\ UNCHANGED <<outcome, diag>>
            ELSE /\ Fatal("installFailed")
                 /\ UNCHANGED <<installed, lockDisk>>
  /\ UNCHANGED <<options, pkg, env, breaking, manifest, pkgFile, lockFile,
                 lastPkgFile, upgrades, installAllSuccess, idx, accepted,
                 rejected, startLock, engine>>

\* let lockFile = ''; try { lockFile = await fs.readFile(lockFileName) } catch {}
LockFileAtStart == IF Exists(startLock) THEN ReadFile(startLock) ELSE Empty
LockFileOnDisk == IF Exists(lockDisk) THEN ReadFile(lockDisk) ELSE Empty

\* save lock file if there is one
SaveLockFile ==
  /\ pc = "saveLockFile"
  /\ lockFile' = LockFileOnDisk
  /\ pc' = "initialTests"
  /\ UNCHANGED <<outcome, diag, options, pkg, env, breaking, manifest, lockDisk,
                 installed, pkgFile, lastPkgFile, upgrades, installAllSuccess,
                 idx, running, failures, log, accepted, rejected, startLock, engine>>

\* catch: 'Tests failed before we even got started!', process.exit(1)
TestsFailureIgnored == pc' = "run" /\ UNCHANGED <<outcome, diag>>
TestsFailedBeforeStart == Fatal("testsFailedBeforeStart")

\* make sure current tests pass before we begin
StartInitialTests ==
  /\ pc = "initialTests"
  /\ Spawn("test", 0, "awaitInitialTests", "run")
  /\ UNCHANGED <<outcome, diag, options, pkg, env, breaking, manifest, lockDisk,
                 installed, pkgFile, lockFile, lastPkgFile, upgrades,
                 installAllSuccess, idx, failures, accepted, rejected, startLock, engine>>

InitialTestsExit ==
  /\ pc = "awaitInitialTests"
  /\ \E ok \in TestExits :
       /\ Exited("test", ok)
       /\ failures' = Count(ok, TestExits)
       /\ IF ok
            THEN pc' = "run" /\ UNCHANGED <<outcome, diag>>
            ELSE TestsFailedBeforeStart
  /\ UNCHANGED <<options, pkg, env, breaking, manifest, lockDisk, installed,
                 pkgFile, lockFile, lastPkgFile, upgrades, installAllSuccess,
                 idx, accepted, rejected, startLock, engine>>

\* Object.keys(upgrades || {}).length === 0
NeverUpToDate(ups) == FALSE
UpToDate(ups) == Len(ups) = 0

\* upgrade all dependencies; save upgrades for later in case we need to iterate
RunUpgrade ==
  /\ pc = "run"
  /\ \E n \in 0..MaxDeps : \E b \in SUBSET (1..n) :
       /\ upgrades' = [k \in 1..n |-> k]
       /\ breaking' = b
       /\ IF UpToDate(upgrades')
            THEN /\ outcome' = "UpToDate"
                 /\ pc' = "exit"
                 /\ log' = Append(log, <<"run", 0>>)
                 /\ UNCHANGED manifest
            ELSE /\ manifest' = runUpgraded(manifest, upgrades')
                 /\ pc' = "installAll"
                 /\ log' = log \o << <<"run", 0>>, <<"writePkg", 0>> >>
                 /\ UNCHANGED outcome
  /\ UNCHANGED <<diag, options, pkg, env, lockDisk, installed, pkgFile, lockFile,
                 lastPkgFile, installAllSuccess, idx, running, failures,
                 accepted, rejected, startLock, engine>>

\* install after all upgrades
StartInstallAll ==
  /\ pc = "installAll"
  /\ Spawn("install", 0, "awaitInstallAll", "testAll")
  /\ UNCHANGED <<outcome, diag, options, pkg, env, breaking, manifest, lockDisk,
                 installed, pkgFile, lockFile, lastPkgFile, upgrades,
                 installAllSuccess, idx, failures, accepted, rejected, startLock, engine>>

InstallAllExit ==
  /\ pc = "awaitInstallAll"
  /\ \E ok \in ProcessExits :
       /\ Exited("install", ok)
       /\ failures' = Count(ok, ProcessExits)
       /\ IF ok
            THEN /\ installed' = manifest
                 /\ lockDisk' = InstalledLock(manifest)
                 /\ installAllSuccess' = TRUE
                 /\ pc' = "testAll"
            ELSE /\ pc' = "catchAll"
                 /\ UNCHANGED <<installed, lockDisk, installAllSuccess>>
  /\ UNCHANGED <<outcome, diag, options, pkg, env, breaking, manifest, pkgFile,
                 lockFile, lastPkgFile, upgrades, idx, accepted, rejected,
                 startLock, engine>>

\* 'Tests pass', printUpgrades, 'All dependencies upgraded and installed'
AllUpgradedThenIterate == pc' = "catchAll" /\ UNCHANGED <<outcome, accepted>>
AllUpgraded ==
  /\ outcome' = "VerifiedAll"
  /\ accepted' = Range(upgrades)
  /\ pc' = "exit"

\* run tests after all upgrades
StartTestAll ==
  /\ pc = "testAll"
  /\ Spawn("test", 0, "awaitTestAll", "exit")
  /\ UNCHANGED <<outcome, diag, options, pkg, env, breaking, manifest, lockDisk,
                 installed, pkgFile, lockFile, lastPkgFile, upgrades,
                 installAllSuccess, idx, failures, accepted, rejected, startLock, engine>>

TestAllExit ==
  /\ pc = "awaitTestAll"
  /\ \E ok \in TestExits :
       /\ Exited("test", ok)
       /\ failures' = Count(ok, TestExits)
       /\ IF ok
            THEN AllUpgraded
            ELSE /\ pc' = "catchAll"
                 /\ UNCHANGED <<outcome, accepted>>
  /\ UNCHANGED <<diag, options, pkg, env, breaking, manifest, lockDisk, installed,
                 pkgFile, lockFile, lastPkgFile, upgrades, installAllSuccess,
                 idx, rejected, startLock, engine>>

\* The lock file after "restore package file, lockFile": written from lockFile
\* if there is one, removed (rimraf) otherwise.
LockLeftOnDisk == lockDisk
RestoredLock == IF lockFile # Empty THEN WriteFile(lockFile) ELSE Absent

\* "only re-install if the tests failed, not if npm install failed"
AlwaysReinstall == "reinstall"
AfterRestore == IF installAllSuccess THEN "reinstall" ELSE "loop"

\* catch: restore package file, lockFile; save the last package file with
\* passing tests; only re-install if the tests failed
RestoreFiles ==
  /\ pc = "catchAll"
  /\ manifest' = pkgFile
  /\ lockDisk' = RestoredLock
  /\ log' = log \o << <<"writePkg", 0>>,
                      <<IF lockFile # Empty THEN "writeLock" ELSE "rmLock", 0>> >>
  /\ lastPkgFile' = pkgFile
  /\ pc' = AfterRestore
  /\ UNCHANGED <<outcome, diag, options, pkg, env, breaking, installed, pkgFile,
                 lockFile, upgrades, installAllSuccess, idx, running, failures,
                 accepted, rejected, startLock, engine>>

\* catch: throw new Error('Doctor mode was about to test individual upgrades,
\* but npm install failed after rolling back ...')
ReinstallFailureIgnored == pc' = "loop" /\ UNCHANGED <<outcome, diag>>
ReinstallFailed == Fatal("reinstallFailedAfterRollback")

\* re-install after restoring package file and lock file
StartReinstall ==
  /\ pc = "reinstall"
  /\ Spawn("install", 0, "awaitReinstall", "loop")
  /\ UNCHANGED <<outcome, diag, options, pkg, env, breaking, manifest, lockDisk,
                 installed, pkgFile, lockFile, lastPkgFile, upgrades,
                 installAllSuccess, idx, failures, accepted, rejected, startLock, engine>>

ReinstallExit ==
  /\ pc = "awaitReinstall"
  /\ \E ok \in ProcessExits :
       /\ Exited("install", ok)
       /\ failures' = Count(ok, ProcessExits)
       /\ IF ok
            THEN /\ installed' = manifest
                 /\ lockDisk' = InstalledLock(manifest)
                 /\ pc' = "loop"
                 /\ UNCHANGED <<outcome, diag>>
            ELSE /\ ReinstallFailed
                 /\ UNCHANGED <<installed, lockDisk>>
  /\ UNCHANGED <<options, pkg, env, breaking, manifest, pkgFile, lockFile,
                 lastPkgFile, upgrades, installAllSuccess, idx, accepted,
                 rejected, startLock, engine>>

----------------------------------------------------------------------------
\* iterate upgrades

\* yarn add persists the dependency to package.json; npm install --no-save
\* does not.
\* The loop goes on with the next entry of upgrades.
SameIndex == idx
SkipIndex == idx + 2
NextIndex == idx + 1

NeverSaves == FALSE
Saves == options.packageManager = "yarn"

NeverPrepare == "stepTests"
AfterInstallSingle == IF pkg.prepare THEN "prepare" ELSE "stepTests"

\* install single dependency
StartInstallSingle ==
  /\ pc = "loop"
  /\ idx <= Len(upgrades)
  /\ Spawn("installSingle", Name, "awaitInstallSingle", AfterInstallSingle)
  /\ UNCHANGED <<outcome, diag, options, pkg, env, breaking, manifest, lockDisk,
                 installed, pkgFile, lockFile, lastPkgFile, upgrades,
                 installAllSuccess, idx, failures, accepted, rejected, startLock, engine>>

InstallSingleExit ==
  /\ pc = "awaitInstallSingle"
  /\ \E ok \in ProcessExits :
       /\ Exited("installSingle", ok)
       /\ failures' = Count(ok, ProcessExits)
       /\ IF ok
            THEN /\ manifest' = IF Saves THEN manifest \cup {Name} ELSE manifest
                 /\ installed' = manifest \cup {Name}
                 /\ lockDisk' = IF Saves THEN InstalledLock(manifest') ELSE lockDisk
                 /\ pc' = AfterInstallSingle
            ELSE /\ pc' = "stepCatch"
                 /\ UNCHANGED <<manifest, installed, lockDisk>>
  /\ UNCHANGED <<outcome, diag, options, pkg, env, breaking, pkgFile, lockFile,
                 lastPkgFile, upgrades, installAllSuccess, idx, accepted,
                 rejected, startLock, engine>>

\* if there is a prepare script, we need to run it manually
StartPrepare ==
  /\ pc = "prepare"
  /\ Spawn("prepare", Name, "awaitPrepare", "stepTests")
  /\ UNCHANGED <<outcome, diag, options, pkg, env, breaking, manifest, lockDisk,
                 installed, pkgFile, lockFile, lastPkgFile, upgrades,
                 installAllSuccess, idx, failures, accepted, rejected, startLock, engine>>

PrepareExit ==
  /\ pc = "awaitPrepare"
  /\ \E ok \in ProcessExits :
       /\ Exited("prepare", ok)
       /\ failures' = Count(ok, ProcessExits)
       /\ pc' = IF ok THEN "stepTests" ELSE "stepCatch"
  /\ UNCHANGED <<outcome, diag, options, pkg, env, breaking, manifest, lockDisk,
                 installed, pkgFile, lockFile, lastPkgFile, upgrades,
                 installAllSuccess, idx, accepted, rejected, startLock, engine>>

\* run tests after individual upgrade
StartStepTests ==
  /\ pc = "stepTests"
  /\ Spawn("test", Name, "awaitStepTests", "stepPassed")
  /\ UNCHANGED <<outcome, diag, options, pkg, env, breaking, manifest, lockDisk,
                 installed, pkgFile, lockFile, lastPkgFile, upgrades,
                 installAllSuccess, idx, failures, accepted, rejected, startLock, engine>>

StepTestsExit ==
  /\ pc = "awaitStepTests"
  /\ \E ok \in TestExits :
       /\ Exited("test", ok)
       /\ failures' = Count(ok, TestExits)
       /\ pc' = IF ok THEN "stepPassed" ELSE "stepCatch"
  /\ UNCHANGED <<outcome, diag, options, pkg, env, breaking, manifest, lockDisk,
                 installed, pkgFile, lockFile, lastPkgFile, upgrades,
                 installAllSuccess, idx, accepted, rejected, startLock, engine>>

\* The package file saved after a passing step.
MergeIntoBaseline(name) == upgradePackageData(pkgFile, name)
MergeIntoLast(name) == upgradePackageData(lastPkgFile, name)

\* after the tests of a step passed: print the check mark, save upgraded
\* package data, save working lock file.  Reading a lock file that does not
\* exist rejects inside the try block, and the catch block follows.
StepPassed ==
  /\ pc = "stepPassed"
  /\ accepted' = accepted \cup {Name}
  /\ lastPkgFile' = MergeIntoLast(Name)
  /\ IF Exists(lockDisk)
       THEN /\ lockFile' = ReadFile(lockDisk)
            /\ idx' = NextIndex
            /\ pc' = "loop"
       ELSE /\ pc' = "stepCatch"
            /\ UNCHANGED <<lockFile, idx>>
  /\ UNCHANGED <<outcome, diag, options, pkg, env, breaking, manifest, lockDisk,
                 installed, pkgFile, upgrades, installAllSuccess, running,
                 failures, log, rejected, startLock, engine>>

\* package.json after the catch of a step: "restore package.json since yarn
\* doesn't have --no-save option"
ManifestLeftOnDisk == manifest
RestoredManifest == IF Saves THEN lastPkgFile ELSE manifest

\* catch of a step: print failing package, restore last good lock file,
\* restore package.json since yarn doesn't have --no-save option
StepCatch ==
  /\ pc = "stepCatch"
  /\ rejected' = rejected \cup {Name}
  /\ lockDisk' = WriteFile(lockFile)
  /\ manifest' = RestoredManifest
  /\ log' = log \o (IF Saves THEN << <<"writeLock", Name>>, <<"writePkg", Name>> >>
                             ELSE << <<"writeLock", Name>> >>)
  /\ idx' = NextIndex
  /\ pc' = "loop"
  /\ UNCHANGED <<outcome, diag, options, pkg, env, breaking, installed, pkgFile,
                 lockFile, lastPkgFile, upgrades, installAllSuccess, running,
                 failures, accepted, startLock, engine>>

\* only if package file is updated
NeverUpdated == FALSE
Updated == lastPkgFile # pkgFile

\* silently restore last passing package file
SavePartial ==
  /\ pc = "loop"
  /\ idx > Len(upgrades)
  /\ IF Updated
       THEN /\ manifest' = lastPkgFile
            /\ log' = Append(log, <<"writePkg", 0>>)
       ELSE UNCHANGED <<manifest, log>>
  /\ pc' = "finalInstall"
  /\ UNCHANGED <<outcome, diag, options, pkg, env, breaking, lockDisk, installed,
                 pkgFile, lockFile, lastPkgFile, upgrades, installAllSuccess,
                 idx, running, failures, accepted, rejected, startLock, engine>>

\* re-install from restored package.json and lockfile
StartFinalInstall ==
  /\ pc = "finalInstall"
  /\ Spawn("install", 0, "awaitFinalInstall", "exit")
  /\ UNCHANGED <<outcome, diag, options, pkg, env, breaking, manifest, lockDisk,
                 installed, pkgFile, lockFile, lastPkgFile, upgrades,
                 installAllSuccess, idx, failures, accepted, rejected, startLock, engine>>

FinalInstallExit ==
  /\ pc = "awaitFinalInstall"
  /\ \E ok \in ProcessExits :
       /\ Exited("install", ok)
       /\ failures' = Count(ok, ProcessExits)
       /\ IF ok
            THEN /\ installed' = manifest
                 /\ lockDisk' = InstalledLock(manifest)
                 /\ outcome' = "Done"
                 /\ pc' = "exit"
                 /\ UNCHANGED diag
            ELSE /\ Fatal("installFailed")
                 /\ UNCHANGED <<installed, lockDisk>>
  /\ UNCHANGED <<options, pkg, env, breaking, manifest, pkgFile, lockFile,
                 lastPkgFile, upgrades, installAllSuccess, idx, accepted,
                 rejected, startLock, engine>>

----------------------------------------------------------------------------
Next ==
  \/ loadPackageFile
  \/ StartInitialInstall
  \/ InitialInstallExit
  \/ SaveLockFile
  \/ StartInitialTests
  \/ InitialTestsExit
  \/ RunUpgrade
  \/ StartInstallAll
  \/ InstallAllExit
  \/ StartTestAll
  \/ TestAllExit
  \/ RestoreFiles
  \/ StartReinstall
  \/ ReinstallExit
  \/ StartInstallSingle
  \/ InstallSingleExit
  \/ StartPrepare
  \/ PrepareExit
  \/ StartStepTests
  \/ StepTestsExit
  \/ StepPassed
  \/ StepCatch
  \/ SavePartial
  \/ StartFinalInstall
  \/ FinalInstallExit

Spec == Init /\ [][Next]_vars

\* Every process started exits and every file operation returns, so that the
\* doctor function goes on whenever it can.
FairSpec == Spec /\ WF_vars(Next)

TypeOK ==
  /\ outcome \in {"Running", "UpToDate", "VerifiedAll", "Done", "Fatal"}
  /\ lockDisk \in LockStates
  /\ lockFile \in LockStates \ {Absent}
  /\ manifest \subseteq Deps
  /\ installed \subseteq Deps
  /\ failures \in 0..MaxFailures

----------------------------------------------------------------------------
\* Version target resolution: run() with a packageData of one dependency of
\* the package ncu-test-tag, as the tests of describe('distTag as target')
\* call it.

\* Largest major, minor, patch and prerelease number of a version.
MaxMajor == 1
MaxMinor == 2
MaxPatch == 1
MaxPreNum == 1

\* Prerelease identifiers; "" is a prerelease without preid, as in 1.0.0-1.
PreIds == {"", "beta", "dev", "task-42"}

Release(ma, mi, pa) ==
  [major |-> ma, minor |-> mi, patch |-> pa, pre |-> FALSE, preid |-> "",
   prenum |-> 0]
Prerelease(ma, mi, pa, id, n) ==
  [major |-> ma, minor |-> mi, patch |-> pa, pre |-> TRUE, preid |-> id,
   prenum |-> n]

Versions ==
  {Release(ma, mi, pa) : ma \in 0..MaxMajor, mi \in 0..MaxMinor, pa \in 0..MaxPatch}
  \cup
  {Prerelease(t[1], t[2], t[3], id, n) :
     t \in (0..MaxMajor) \X (0..MaxMinor) \X (0..MaxPatch),
     id \in PreIds, n \in 0..MaxPreNum}

\* The dist-tags of ncu-test-tag in the registry.
NcuTestTag ==
  ("latest" :> Release(1, 1, 0)) @@
  ("next" :> Prerelease(1, 0, 0, "", 1)) @@
  ("beta" :> Prerelease(1, 0, 1, "beta", 0)) @@
  ("task-42" :> Prerelease(1, 0, 0, "task-42", 0))

\* target: '@next', '@beta', '@task-42'
DistTagTargets == {[kind |-> "distTag", tag |-> t] : t \in {"next", "beta", "task-42"}}

\* The release triple major.minor.patch and its order.
Triple(v) == <<v.major, v.minor, v.patch>>
TripleLess(a, b) ==
  \/ a[1] < b[1]
  \/ a[1] = b[1] /\ a[2] < b[2]
  \/ a[1] = b[1] /\ a[2] = b[2] /\ a[3] < b[3]

\* The version at a dist-tag, if the package has that tag.
distTag(tags, tag) == IF tag \in DOMAIN tags THEN {tags[tag]} ELSE {}

\* A switch within the same major.minor.patch: "can't detect which prerelease
\* is higher, so just allow switching", in both orders.
SameTripleHigherPrenum(cur, cand) ==
  Triple(cand) = Triple(cur) /\ cand.prenum > cur.prenum
SameTripleSwitch(cur, cand) == Triple(cand) = Triple(cur)

\* An upgrade to a higher major.minor.patch.
HigherTriple(cur, cand) == TripleLess(Triple(cur), Triple(cand))

\* "downgrade to tag with a non-matching preid": both versions are
\* prereleases and their preids differ (no preid differs from any preid); a
\* declared version that is no prerelease is not downgraded.
AnyPrereleaseCandidate(cur, cand) == cand.pre
NeverNonMatching(cur, cand) == FALSE
NonMatchingPreid(cur, cand) == cur.pre /\ cand.pre /\ cur.preid # cand.preid

\* Acceptance of the version at a dist-tag.
isUpgradeable(cur, cand) ==
  /\ cand # cur
  /\ \/ SameTripleSwitch(cur, cand)
     \/ HigherTriple(cur, cand)
     \/ NonMatchingPreid(cur, cand)

\* The upgraded versions of a dependency declared at cur: none, or one.
upgradeDependency(cur, policy, tags) ==
  IF policy.kind = "distTag"
    THEN {cand \in distTag(tags, policy.tag) : isUpgradeable(cur, cand)}
    ELSE {}

\* No doctor session runs during a resolution.
SessionIdle ==
  /\ pc = "idle"
  /\ outcome = "Running"
  /\ diag = "none"
  /\ options = [packageManager |-> "npm", packageData |-> TRUE,
                packageFile |-> FALSE, doctorTest |-> FALSE]
  /\ pkg = [valid |-> TRUE, test |-> TRUE, prepare |-> FALSE]
  /\ env = [lockEnabled |-> TRUE]
  /\ breaking = {}
  /\ manifest = {}
  /\ lockDisk = Absent
  /\ startLock = Absent
  /\ installed = {}
  /\ pkgFile = {}
  /\ lockFile = Empty
  /\ lastPkgFile = {}
  /\ upgrades = <<>>
  /\ installAllSuccess = FALSE
  /\ idx = 1
  /\ running = <<>>
  /\ failures = 0
  /\ log = <<>>
  /\ accepted = {}
  /\ rejected = {}

\* The registry holds ncu-test-tag, or ncu-test-tag with the target's tag
\* pointing at any other version.
ResolutionInit ==
  /\ SessionIdle
  /\ RequestDefault
  /\ CacheIdle
  /\ rpc = "ready"
  /\ target \in DistTagTargets
  /\ distTags \in {NcuTestTag} \cup
                  {[NcuTestTag EXCEPT ![target.tag] = v] : v \in Versions}
  /\ current = Release(0, 0, 0)
  /\ result = {}

\* ncu.run({ target, packageData: { dependencies: { 'ncu-test-tag': current } } })
Resolve ==
  /\ rpc = "ready"
  /\ \E cur \in Versions :
       /\ current' = cur
       /\ result' = upgradeDependency(cur, target, distTags)
  /\ rpc' = "resolved"
  /\ UNCHANGED <<target, distTags, request, caching, session>>

ResolutionNext == Resolve

ResolutionSpec == ResolutionInit /\ [][ResolutionNext]_vars

----------------------------------------------------------------------------
\* Version target resolution under every target: run() with a packageData of
\* one dependency, as the tests of describe('run') call it with the options
\* target, pre and the filters.

\* A version set of the registry: the published versions and the dist-tags.
VersionSet(versions, tags) == [versions |-> versions, tags |-> tags]

\* ncu-mock-pre: 1.0.0 and the prerelease 2.0.0-alpha.0, which is what the
\* default target returns with pre: true
NcuMockPre ==
  VersionSet({Release(1, 0, 0), Prerelease(2, 0, 0, "alpha", 0)},
             "latest" :> Prerelease(2, 0, 0, "alpha", 0))

\* ncu-test-alpha-latest: latest points at a prerelease
NcuTestAlphaLatest ==
  VersionSet({Prerelease(1, 0, 0, "alpha", 1), Prerelease(1, 0, 0, "alpha", 2)},
             "latest" :> Prerelease(1, 0, 0, "alpha", 2))

\* chalk: 2.4.2 is the last version of major 2, 3.0.0 the only one of major 3
Chalk ==
  VersionSet({Release(2, 3, 0), Release(2, 3, 2), Release(2, 4, 0),
              Release(2, 4, 1), Release(2, 4, 2), Release(3, 0, 0),
              Release(5, 0, 1)},
             "latest" :> Release(5, 0, 1))

\* ncu-test-tag: the versions its dist-tags point at
NcuTestTagSet ==
  VersionSet({NcuTestTag[t] : t \in DOMAIN NcuTestTag}, NcuTestTag)

Packages == {NcuMockPre, NcuTestAlphaLatest, Chalk, NcuTestTagSet}

\* The versions a package may additionally have published and a dependency
\* may be declared at: releases and beta prereleases.
NumericVersions == {v \in Versions : ~v.pre \/ v.preid = "beta"}

\* target: 'latest' | 'newest' | 'greatest' | 'minor' | 'patch' | 'semver'
NumericKinds == {"latest", "newest", "greatest", "minor", "patch", "semver"}
NumericTargets == {[kind |-> k, tag |-> "latest"] : k \in NumericKinds}

\* The targets to resolve a package with: every numeric target, and a
\* dist-tag target for every other tag the package has.
TargetsOf(vs) ==
  NumericTargets \cup
  {[kind |-> "distTag", tag |-> t] : t \in (DOMAIN vs.tags) \ {"latest"}}

\* What a dependency is declared as: a version, or a value that is no version
\* of the registry ('//': 'This is a comment', 'file:../editor',
\* 'link:../link', 'github:a/b').
SpecifierKinds == {"version", "comment", "file", "link", "github"}

\* Semver precedence.  Prerelease identifiers compare numeric before
\* alphanumeric and alphanumeric in ASCII order.
PreidRank(id) ==
  CASE id = "" -> 0
    [] id = "alpha" -> 1
    [] id = "beta" -> 2
    [] id = "dev" -> 3
    [] OTHER -> 4
PrereleaseLess(a, b) ==
  \/ PreidRank(a.preid) < PreidRank(b.preid)
  \/ a.preid = b.preid /\ a.prenum < b.prenum
VersionLess(a, b) ==
  \/ TripleLess(Triple(a), Triple(b))
  \/ /\ Triple(a) = Triple(b)
     /\ \/ a.pre /\ ~b.pre
        \/ a.pre /\ b.pre /\ PrereleaseLess(a, b)

\* The maximum of a set of versions: empty for the empty set.
Maximum(versions) ==
  {v \in versions : \A w \in versions : ~VersionLess(v, w)}

\* Are prereleases allowed: options.pre where it is given, and otherwise for
\* the targets newest and greatest, for a dist-tag target and for a declared
\* prerelease.
PrereleaseOfDeclaredAllowed(opt, policy, cur) ==
  opt = "true" \/ cur.pre \/
  (opt = "unset" /\ policy.kind \in {"newest", "greatest", "distTag"})
PrereleaseOfTargetAllowed(opt, policy, cur) ==
  opt = "true" \/ policy.kind \in {"newest", "greatest", "distTag"} \/
  (opt = "unset" /\ cur.pre)
allowPrerelease(opt, policy, cur) ==
  IF opt # "unset"
    THEN opt = "true"
    ELSE policy.kind \in {"newest", "greatest", "distTag"} \/ cur.pre

\* The versions that may be selected.
Eligible(versions, allow) == {v \in versions : allow \/ ~v.pre}

\* Does a version satisfy the declared range: the version itself, ^ keeps the
\* leftmost non-zero component, ~ keeps major.minor; a prerelease satisfies
\* only a range declared at a prerelease of its major.minor.patch.
Satisfies(v, cur, op) ==
  /\ ~VersionLess(v, cur)
  /\ v.pre => (cur.pre /\ Triple(v) = Triple(cur))
  /\ CASE op = "^" ->
            /\ v.major = cur.major
            /\ cur.major = 0 => v.minor = cur.minor
            /\ (cur.major = 0 /\ cur.minor = 0) => v.patch = cur.patch
       [] op = "~" -> v.major = cur.major /\ v.minor = cur.minor
       [] OTHER -> v = cur

\* The versions a bounded target selects among.
AnyMajor(cur, v) == TRUE
SameMajor(cur, v) == v.major = cur.major
SameMajorMinor(cur, v) == v.major = cur.major /\ v.minor = cur.minor

\* Candidate selection of a target.
selectCandidate(cur, op, vs, policy, allow) ==
  LET ok == Eligible(vs.versions, allow)
  IN  CASE policy.kind = "latest" -> distTag(vs.tags, "latest") \cap ok
        [] policy.kind = "newest" -> Maximum(ok)
        [] policy.kind = "greatest" -> Maximum(ok)
        [] policy.kind = "minor" -> Maximum({v \in ok : SameMajor(cur, v)})
        [] policy.kind = "patch" -> Maximum({v \in ok : SameMajorMinor(cur, v)})
        [] policy.kind = "semver" -> Maximum({v \in ok : Satisfies(v, cur, op)})
        [] OTHER -> distTag(vs.tags, policy.tag) \cap ok

\* Acceptance under a numeric target: "do not downgrade to latest with lower
\* version".  A lower major.minor.patch is a lower version, and so is a
\* prerelease of the declared major.minor.patch that precedes it.
AnyVersion(cur, cand) == TRUE
NotLowerVersion(cur, cand) == ~VersionLess(cand, cur)

\* Acceptance of a candidate.
isAccepted(cur, cand, policy) ==
  /\ cand # cur
  /\ IF policy.kind = "distTag"
       THEN isUpgradeable(cur, cand)
       ELSE NotLowerVersion(cur, cand)

\* resolve(comparators, versionSet, policy, allowPrerelease)
resolve(cur, op, vs, policy, opt) ==
  {cand \in selectCandidate(cur, op, vs, policy, allowPrerelease(opt, policy, cur)) :
     isAccepted(cur, cand, policy)}

\* Is the declared value looked up in the registry at all.
EverythingResolved(kind) == TRUE
isRegistrySpecifier(kind) == kind = "version"

\* The registry holds one of the packages, possibly with one more version
\* published.
TargetInit ==
  /\ SessionIdle
  /\ CacheIdle
  /\ rpc = "ready"
  /\ \E vs \in Packages :
       /\ distTags = vs.tags
       /\ published \in {vs.versions} \cup
                        {vs.versions \cup {v} : v \in NumericVersions}
       /\ target \in TargetsOf(vs)
  /\ current = Release(0, 0, 0)
  /\ result = {}
  /\ preOption = "unset"
  /\ operator = ""
  /\ specifier = "version"
  /\ excluded = FALSE

\* ncu.run({ target, pre, filter, packageData: { dependencies: { name: declared } } })
\* for a declared version
ResolveVersion ==
  /\ rpc = "ready"
  /\ \E cur \in NumericVersions \cup published, opt \in {"unset", "true", "false"},
        op \in {"", "^", "~"}, ex \in BOOLEAN :
       /\ op # "" => target.kind = "semver"
       /\ current' = cur
       /\ preOption' = opt
       /\ operator' = op
       /\ excluded' = ex
       /\ result' = IF ex \/ ~isRegistrySpecifier("version")
                      THEN {}
                      ELSE resolve(cur, op, VersionSet(published, distTags),
                                   target, opt)
  /\ specifier' = "version"
  /\ rpc' = "resolved"
  /\ UNCHANGED <<target, distTags, published, caching, session>>

\* the same for a declared value that is a comment or a protocol
ResolveOther ==
  /\ rpc = "ready"
  /\ \E kind \in SpecifierKinds \ {"version"}, opt \in {"unset", "true", "false"},
        ex \in BOOLEAN :
       /\ specifier' = kind
       /\ preOption' = opt
       /\ excluded' = ex
       /\ result' = IF ex \/ ~isRegistrySpecifier(kind)
                      THEN {}
                      ELSE resolve(current, operator,
                                   VersionSet(published, distTags), target, opt)
  /\ rpc' = "resolved"
  /\ UNCHANGED <<target, distTags, published, current, operator, caching,
                 session>>

TargetNext == ResolveVersion \/ ResolveOther

TargetSpec == TargetInit /\ [][TargetNext]_vars

----------------------------------------------------------------------------
\* The resolution cache of one run: the dependencies are resolved
\* concurrently and every resolution looks its package up in the cache.

\* Largest number of concurrent lookups, of package keys, and of different
\* answers of the registry to a fetch of one key.
MaxLookups == 3
MaxKeys == 2
MaxAnswers == 2

Lookups == 1..MaxLookups
Keys == 1..MaxKeys
\* A version set is identified by a number: 0 is the one restored into the
\* cache from an earlier run, 1..MaxAnswers are answers of the registry.
Answers == 1..MaxAnswers

\* A cache entry: none, one restored from an earlier run within its lifetime,
\* one restored but older than the lifetime, or one fetched in this run.
NoEntry == [state |-> "none", value |-> 0]
Entry(value) == [state |-> "fresh", value |-> value]
Expired == [state |-> "expired", value |-> 0]

\* get(key): an entry older than the lifetime is a miss.
IsHit(entry) == entry.state = "fresh"

\* Is a fetch of the key in flight.
NeverInFlight(key) == FALSE
InFlight(key) == key \in inflight

Key(w) == lookups[w].key

\* The resolver is idle while the cache is exercised.
ResolverIdle ==
  /\ RequestDefault
  /\ rpc = "idle"
  /\ target = [kind |-> "latest", tag |-> "latest"]
  /\ distTags = <<>>
  /\ current = [major |-> 0, minor |-> 0, patch |-> 0, pre |-> FALSE,
                preid |-> "", prenum |-> 0]
  /\ result = {}

\* A run with MaxLookups dependencies of any package keys and a cache as
\* restored from the store.
CacheInit ==
  /\ SessionIdle
  /\ ResolverIdle
  /\ lookups \in [Lookups -> [key : Keys, pc : {"start"}, got : {0}]]
  /\ cache \in [Keys -> {NoEntry, Entry(0), Expired}]
  /\ inflight = {}
  /\ fetches = [k \in Keys |-> 0]
  /\ awaited = {}

\* A resolution looks its key up: a hit returns the entry's version set; on a
\* miss it awaits the fetch in flight for the key if there is one, and
\* otherwise starts the fetch.
Lookup(w) ==
  /\ lookups[w].pc = "start"
  /\ IF IsHit(cache[Key(w)])
       THEN /\ lookups' = [lookups EXCEPT ![w].pc = "done",
                                          ![w].got = cache[Key(w)].value]
            /\ UNCHANGED <<inflight, fetches, awaited>>
       ELSE IF InFlight(Key(w))
         THEN /\ lookups' = [lookups EXCEPT ![w].pc = "awaiting"]
              /\ awaited' = awaited \cup {w}
              /\ UNCHANGED <<inflight, fetches>>
         ELSE /\ lookups' = [lookups EXCEPT ![w].pc = "fetching"]
              /\ inflight' = inflight \cup {Key(w)}
              /\ fetches' = [fetches EXCEPT ![Key(w)] = @ + 1]
              /\ UNCHANGED awaited
  /\ UNCHANGED <<cache, session, resolver>>

\* The registry answers the fetch: the version set is put into the cache and
\* returned to the lookup that started the fetch.
FetchReturns(w) ==
  /\ lookups[w].pc = "fetching"
  /\ \E answer \in Answers :
       /\ cache' = [cache EXCEPT ![Key(w)] = Entry(answer)]
       /\ lookups' = [lookups EXCEPT ![w].pc = "done", ![w].got = answer]
  /\ inflight' = inflight \ {Key(w)}
  /\ UNCHANGED <<fetches, awaited, session, resolver>>

\* A lookup that awaited the fetch in flight receives its result.
Resume(w) ==
  /\ lookups[w].pc = "awaiting"
  /\ ~InFlight(Key(w))
  /\ lookups' = [lookups EXCEPT ![w].pc = "done",
                                ![w].got = cache[Key(w)].value]
  /\ UNCHANGED <<cache, inflight, fetches, awaited, session, resolver>>

CacheNext == \E w \in Lookups : Lookup(w) \/ FetchReturns(w) \/ Resume(w)

CacheSpec == CacheInit /\ [][CacheNext]_vars

\* Every lookup is a task of the event loop and runs when it can; the
\* registry answers every fetch.
CacheFairSpec ==
  /\ CacheSpec
  /\ \A w \in Lookups :
       WF_vars(Lookup(w)) /\ WF_vars(FetchReturns(w)) /\ WF_vars(Resume(w))

----------------------------------------------------------------------------
\* Vocabulary of the properties

Ev(op) == <<op, 0>>
IsSpawn(e) == e[1] \in {"install", "installSingle", "prepare", "test"}
IsWrite(e) == e[1] \in {"writePkg", "writeLock", "rmLock"}
IsExit(e) == e[1] \in {"ok", "failed"}

\* The upgrades that do not make the test command fail.
Others == Range(upgrades) \ breaking

\* The lock file on disk that a saved lockFile stands for: '' stands for no
\* lock file.
SavedLockState(saved) == IF saved = Empty THEN Absent ELSE saved

\* The history starts with the initial install and the initial tests:
\* log[1..4] = install, exit, test, exit; then run at log[5]; then, for a
\* non-empty upgrade map, writePkg, install, exit, test, exit at log[6..10].
InitialInstallFailed == Len(log) >= 2 /\ log[2] = Ev("failed")
InitialTestsFailed == Len(log) >= 4 /\ log[4] = Ev("failed")
AllInstalledAndPassed ==
  /\ Len(log) >= 10
  /\ log[7] = Ev("install") /\ log[8] = Ev("ok")
  /\ log[9] = Ev("test") /\ log[10] = Ev("ok")
\* the all-upgrades test failed, the files were restored (log[11..12]) and
\* the re-install (log[13]) failed
ReinstallHasFailed ==
  /\ Len(log) >= 14
  /\ log[9] = Ev("test") /\ log[10] = Ev("failed")
  /\ log[13] = Ev("install") /\ log[14] = Ev("failed")

----------------------------------------------------------------------------
\* C1: when exactly one upgrade makes the test command fail and nothing else
\* fails, a session that ends Done has accepted exactly the other upgrades,
\* package.json declares exactly those at their upgraded version, and the
\* lock file locks no other upgrade (and exactly those where the package
\* manager keeps a lock file).
C1_OneBreakingUpgradeIsolated ==
  (outcome = "Done" /\ failures = 0 /\ Cardinality(breaking) = 1) =>
    /\ accepted = Others
    /\ lastPkgFile = Others
    /\ manifest = Others
    /\ lockDisk.up \subseteq Others
    /\ env.lockEnabled => lockDisk = LockOf(Others)

C1_Witness ==
  /\ outcome = "Done"
  /\ failures = 0
  /\ Len(upgrades) = 3
  /\ breaking = {2}
  /\ manifest = {1, 3}
  /\ lockDisk = LockOf({1, 3})

\* C2: at every exit of the session the files on disk are the baseline
\* snapshot, or the last known good package file with its saved lock file, or
\* the fully upgraded batch that passed install and test (the lock file being
\* the saved one or the one the last install wrote for the package file on
\* disk).
LockConsistent ==
  \/ lockDisk = SavedLockState(lockFile)
  \/ env.lockEnabled /\ lockDisk = LockOf(manifest)
  \/ Len(log) <= 2 /\ lockDisk = startLock

C2_ExitConsistentWithBookkeeping ==
  outcome # "Running" =>
    /\ LockConsistent
    /\ \/ manifest = pkgFile
       \/ manifest = lastPkgFile
       \/ outcome = "VerifiedAll" /\ manifest = Range(upgrades)

\* C3 as claimed: after a failed baseline install or baseline test the session
\* is Fatal, run() was never called, and package.json and the lock file are
\* as they were when the session started.
C3_BaselineFailureLeavesFilesUntouched ==
  (InitialInstallFailed \/ InitialTestsFailed) =>
    /\ outcome = "Fatal"
    /\ Ev("run") \notin Range(log)
    /\ upgrades = <<>>
    /\ manifest = {}
    /\ lockDisk = startLock

\* C3 as amended: after a failed baseline install or baseline test the session
\* is Fatal, nothing was spawned or written afterwards and run() was never
\* called; package.json is as at the session start; the lock file is as at
\* the session start after a failed install, and as the successful baseline
\* install left it after failed tests.
C3_BaselineFailureWritesNothing ==
  /\ InitialInstallFailed =>
       /\ outcome = "Fatal" /\ pc = "exit"
       /\ Len(log) = 2
       /\ upgrades = <<>>
       /\ manifest = {}
       /\ lockDisk = startLock
  /\ InitialTestsFailed =>
       /\ outcome = "Fatal" /\ pc = "exit"
       /\ Len(log) = 4
       /\ upgrades = <<>>
       /\ manifest = {}
       /\ lockDisk = IF env.lockEnabled THEN LockOf({}) ELSE startLock

C3_Witness ==
  /\ InitialTestsFailed
  /\ outcome = "Fatal"
  /\ diag = "testsFailedBeforeStart"
  /\ lockDisk # startLock

\* C4: when the re-install after the rollback fails, the session is Fatal
\* with the re-install diagnostic, nothing is spawned or written after it,
\* and package.json and the lock file are the baseline snapshot.
C4_ReinstallFailureIsFatal ==
  ReinstallHasFailed =>
    /\ outcome = "Fatal" /\ pc = "exit"
    /\ diag = "reinstallFailedAfterRollback"
    /\ Len(log) = 14
    /\ manifest = pkgFile
    /\ lockDisk = SavedLockState(lockFile)
    /\ accepted = {} /\ rejected = {}

C4_Witness ==
  /\ ReinstallHasFailed
  /\ outcome = "Fatal"
  /\ Len(upgrades) >= 2
  /\ manifest = {}

\* C5: a dependency handled as failed in a bisection step is never merged
\* into the last known good package file and is never also reported as
\* passing.
C5_FailedStepExcluded ==
  /\ rejected \cap lastPkgFile = {}
  /\ rejected \cap accepted = {}

\* C6: when the install and the tests with all upgrades succeed, the session
\* ends VerifiedAll right there: nothing is spawned or written afterwards and
\* package.json keeps all upgrades.
C6_AllPassedAcceptsBatch ==
  AllInstalledAndPassed =>
    /\ outcome = "VerifiedAll" /\ pc = "exit"
    /\ Len(log) = 10
    /\ manifest = Range(upgrades)
    /\ accepted = Range(upgrades)
    /\ rejected = {}

C6_Witness ==
  /\ AllInstalledAndPassed
  /\ outcome = "VerifiedAll"
  /\ Len(upgrades) >= 2

\* C7: when run() returns an empty upgrade map the session ends UpToDate
\* right there: nothing is spawned afterwards and neither package.json nor
\* the lock file was written by the session.
C7_EmptyUpgradesNoChanges ==
  (Len(log) >= 5 /\ log[5] = Ev("run") /\ upgrades = <<>>) =>
    /\ outcome = "UpToDate" /\ pc = "exit"
    /\ Len(log) = 5
    /\ \A k \in 1..Len(log) : ~IsWrite(log[k])
    /\ manifest = pkgFile
    /\ lockDisk = SavedLockState(lockFile)

C7_Witness ==
  /\ outcome = "UpToDate"
  /\ Len(log) = 5
  /\ log[5] = Ev("run")
  /\ upgrades = <<>>

\* C8: at most one external process is in flight, and every process spawned
\* has exited before the next process is spawned or a file is written.
C8_StrictlySequential ==
  /\ Len(running) <= 1
  /\ \A k \in 1..Len(log) :
       IsSpawn(log[k]) =>
         IF k < Len(log) THEN IsExit(log[k + 1]) ELSE Len(running) = 1
  /\ (log # <<>> /\ ~IsSpawn(log[Len(log)])) => running = <<>>

C8_Witness ==
  /\ pc = "awaitStepTests"
  /\ running = <<"test">>
  /\ idx = 2
  /\ \E k \in 1..Len(log) : IsWrite(log[k])

----------------------------------------------------------------------------
\* Properties of the resolution under a dist-tag target

\* The version the target's tag points at.
TagVersion == distTags[target.tag]
DistTagResolved == rpc = "resolved" /\ target.kind = "distTag"

\* C9 as claimed: under a dist-tag target, a version at the tag whose
\* major.minor.patch differs from the declared one is accepted only if its
\* major.minor.patch is strictly greater, and yields no change if it is lower.
C9_DifferingTripleOnlyUpgrades ==
  (DistTagResolved /\ Triple(TagVersion) # Triple(current)) =>
    /\ result # {} => TripleLess(Triple(current), Triple(TagVersion))
    /\ TripleLess(Triple(TagVersion), Triple(current)) => result = {}

\* C9 as amended: the same, unless the declared version and the version at the
\* tag are both prereleases with different preids; in particular a declared
\* version that is no prerelease is never replaced by a version of a lower
\* major.minor.patch, and a higher major.minor.patch is accepted.
C9_DifferingTripleOnlyUpgradesUnlessPreidsDiffer ==
  (/\ DistTagResolved
   /\ Triple(TagVersion) # Triple(current)
   /\ ~(current.pre /\ TagVersion.pre /\ current.preid # TagVersion.preid)) =>
    /\ result # {} => TripleLess(Triple(current), Triple(TagVersion))
    /\ TripleLess(Triple(TagVersion), Triple(current)) => result = {}
    /\ TripleLess(Triple(current), Triple(TagVersion)) => result = {TagVersion}

\* current 1.1.0 with @next at 1.0.0-1: no change
C9_Witness ==
  /\ DistTagResolved
  /\ distTags = NcuTestTag
  /\ target.tag = "next"
  /\ current = Release(1, 1, 0)
  /\ TagVersion = Prerelease(1, 0, 0, "", 1)
  /\ result = {}

\* C10: under a dist-tag target, a declared prerelease whose preid differs
\* from the preid of the prerelease at the tag is replaced by the version at
\* the tag, also when that version has a lower major.minor.patch.
C10_NonMatchingPreidSwitchesToTag ==
  (/\ DistTagResolved
   /\ current.pre /\ TagVersion.pre
   /\ current.preid # TagVersion.preid) =>
    result = {TagVersion}

\* current 1.0.1-beta.0 with @task-42 gives 1.0.0-task-42.0
C10_Witness ==
  /\ DistTagResolved
  /\ distTags = NcuTestTag
  /\ target.tag = "task-42"
  /\ current = Prerelease(1, 0, 1, "beta", 0)
  /\ result = {Prerelease(1, 0, 0, "task-42", 0)}
  /\ TripleLess(Triple(TagVersion), Triple(current))

\* current 1.2.0-dev.0 with @next gives 1.0.0-1
C10_WitnessLowerMinor ==
  /\ DistTagResolved
  /\ distTags = NcuTestTag
  /\ target.tag = "next"
  /\ current = Prerelease(1, 2, 0, "dev", 0)
  /\ result = {Prerelease(1, 0, 0, "", 1)}

C11_WitnessReverse ==
  /\ DistTagResolved
  /\ distTags = NcuTestTag
  /\ target.tag = "task-42"
  /\ current = Prerelease(1, 0, 0, "beta", 0)
  /\ result = {Prerelease(1, 0, 0, "task-42", 0)}

----------------------------------------------------------------------------
\* Properties of the resolution under every target

\* run() has returned for a dependency declared at a version that the filters
\* do not exclude.
VersionResolved == rpc = "resolved" /\ specifier = "version" /\ ~excluded
NumericResolved == VersionResolved /\ target.kind \in NumericKinds

\* The registry as resolve() sees it.
Registry == VersionSet(published, distTags)

\* The candidate the target selected, before acceptance.
Candidate ==
  selectCandidate(current, operator, Registry, target,
                  allowPrerelease(preOption, target, current))

\* The expectations of the run tests on the options pre and target.
Expect(vs, kind, opt, cur, expected) ==
  (VersionResolved /\ Registry = vs /\ target.kind = kind /\ preOption = opt
                   /\ operator = "" /\ current = cur) =>
    result = expected

RunTestsReproduced ==
  /\ Expect(NcuMockPre, "latest", "unset", Release(1, 0, 0), {})
  /\ Expect(NcuTestAlphaLatest, "latest", "unset",
            Prerelease(1, 0, 0, "alpha", 1), {Prerelease(1, 0, 0, "alpha", 2)})
  /\ Expect(NcuTestAlphaLatest, "latest", "false",
            Prerelease(1, 0, 0, "alpha", 1), {})
  /\ Expect(NcuMockPre, "latest", "true", Release(1, 0, 0),
            {Prerelease(2, 0, 0, "alpha", 0)})
  /\ Expect(NcuMockPre, "newest", "unset", Release(1, 0, 0),
            {Prerelease(2, 0, 0, "alpha", 0)})
  /\ Expect(NcuMockPre, "greatest", "unset", Release(1, 0, 0),
            {Prerelease(2, 0, 0, "alpha", 0)})
  /\ Expect(NcuMockPre, "newest", "false", Release(1, 0, 0), {})
  /\ Expect(Chalk, "minor", "unset", Release(3, 0, 0), {})
  /\ Expect(Chalk, "minor", "unset", Release(2, 3, 0), {Release(2, 4, 2)})
  /\ Expect(Chalk, "minor", "unset", Release(2, 4, 0), {Release(2, 4, 2)})
  /\ Expect(Chalk, "patch", "unset", Release(3, 0, 0), {})
  /\ Expect(Chalk, "patch", "unset", Release(2, 3, 2), {})
  /\ Expect(Chalk, "patch", "unset", Release(2, 4, 1), {Release(2, 4, 2)})
  /\ Expect(NcuTestTagSet, "latest", "unset", Prerelease(1, 1, 1, "beta", 0), {})

\* C12: under the targets latest, newest, greatest, minor, patch and semver
\* the result never holds a version of a lower major.minor.patch than the
\* declared version, and a candidate of a lower major.minor.patch yields no
\* change.
C12_NumericNeverDowngrades ==
  NumericResolved =>
    /\ \A v \in result : ~TripleLess(Triple(v), Triple(current))
    /\ (\E c \in Candidate : TripleLess(Triple(c), Triple(current))) =>
         result = {}

\* current 1.1.1-beta.0 of ncu-test-tag with latest at 1.1.0: no change
C12_Witness ==
  /\ NumericResolved
  /\ target.kind = "latest"
  /\ Registry = NcuTestTagSet
  /\ current = Prerelease(1, 1, 1, "beta", 0)
  /\ Candidate = {Release(1, 1, 0)}
  /\ result = {}

\* C13 as claimed: under the target greatest, unless the caller allows
\* prereleases, a version of the result has a major.minor.patch that is not
\* lower than the declared one and is a prerelease only if the declared
\* version is one.
C13_GreatestNoPrereleaseUnlessAllowed ==
  (VersionResolved /\ target.kind = "greatest" /\ preOption # "true") =>
    \A v \in result :
      /\ ~TripleLess(Triple(v), Triple(current))
      /\ v.pre => current.pre

\* C13 as amended: under the target greatest a version of the result has a
\* major.minor.patch that is not lower than the declared one; it is no
\* prerelease when the option pre is false; when the option pre is not given
\* the target allows prereleases itself, so that ncu-mock-pre declared at
\* 1.0.0 is upgraded to 2.0.0-alpha.0.
C13_GreatestNoPrereleaseWhenDisabled ==
  (VersionResolved /\ target.kind = "greatest") =>
    /\ \A v \in result : ~TripleLess(Triple(v), Triple(current))
    /\ preOption = "false" => \A v \in result : ~v.pre
    /\ (preOption = "unset" /\ Registry = NcuMockPre
                            /\ current = Release(1, 0, 0)) =>
         result = {Prerelease(2, 0, 0, "alpha", 0)}

\* ncu-mock-pre declared at 1.0.0, target greatest, no option pre
C13_Witness ==
  /\ VersionResolved
  /\ target.kind = "greatest"
  /\ preOption = "unset"
  /\ Registry = NcuMockPre
  /\ current = Release(1, 0, 0)
  /\ result = {Prerelease(2, 0, 0, "alpha", 0)}

\* a declared prerelease, target greatest, pre: false, a newer release and a
\* still newer prerelease published: the release is selected
C13_WitnessDisabled ==
  /\ VersionResolved
  /\ target.kind = "greatest"
  /\ preOption = "false"
  /\ current.pre
  /\ \E v \in published : v.pre /\ \A w \in result : VersionLess(w, v)
  /\ result # {}

\* C14: with the option pre false no version of the result is a prerelease,
\* whatever the target; under the target newest a declared release stays
\* unchanged when every newer published version is a prerelease; under the
\* target latest a declared prerelease stays unchanged when the latest tag
\* points at a prerelease.
C14_PreFalseNeverPrerelease ==
  (VersionResolved /\ preOption = "false") =>
    /\ \A v \in result : ~v.pre
    /\ (/\ target.kind = "newest"
        /\ ~current.pre
        /\ \A v \in published : VersionLess(current, v) => v.pre) =>
         result = {}
    /\ (/\ target.kind = "latest"
        /\ current.pre
        /\ distTags["latest"].pre) =>
         result = {}

\* ncu-mock-pre declared at 1.0.0, target newest, pre: false: no change
C14_Witness ==
  /\ VersionResolved
  /\ preOption = "false"
  /\ target.kind = "newest"
  /\ Registry = NcuMockPre
  /\ current = Release(1, 0, 0)
  /\ result = {}

\* ncu-test-alpha-latest declared at 1.0.0-alpha.1, pre: false: no change
C14_WitnessLatest ==
  /\ VersionResolved
  /\ preOption = "false"
  /\ target.kind = "latest"
  /\ Registry = NcuTestAlphaLatest
  /\ current = Prerelease(1, 0, 0, "alpha", 1)
  /\ result = {}

\* C15: under the target minor a version of the result has the major of the
\* declared version, under the target patch its major and minor; the result
\* is empty when no other published version that may be selected shares
\* them without having a lower major.minor.patch.
C15_BoundedTargetKeepsUpperComponents ==
  /\ (VersionResolved /\ target.kind = "minor") =>
       /\ \A v \in result : v.major = current.major
       /\ (\A v \in published \ {current} :
             v.major = current.major => VersionLess(v, current)) =>
            result = {}
  /\ (VersionResolved /\ target.kind = "patch") =>
       /\ \A v \in result :
            v.major = current.major /\ v.minor = current.minor
       /\ (\A v \in published \ {current} :
             (v.major = current.major /\ v.minor = current.minor) =>
               VersionLess(v, current)) =>
            result = {}

\* chalk declared at 2.3.0 with the target minor gives 2.4.2, not 3.0.0
C15_Witness ==
  /\ VersionResolved
  /\ target.kind = "minor"
  /\ Registry = Chalk
  /\ current = Release(2, 3, 0)
  /\ result = {Release(2, 4, 2)}

\* chalk declared at 2.3.2 with the target patch: no change
C15_WitnessPatchAbsent ==
  /\ VersionResolved
  /\ target.kind = "patch"
  /\ Registry = Chalk
  /\ current = Release(2, 3, 2)
  /\ result = {}

\* chalk declared at 3.0.0 with the target minor: no change
C15_WitnessMinorAbsent ==
  /\ VersionResolved
  /\ target.kind = "minor"
  /\ Registry = Chalk
  /\ current = Release(3, 0, 0)
  /\ result = {}

\* chalk declared at 2.4.1 with the target patch gives 2.4.2
C15_WitnessPatch ==
  /\ VersionResolved
  /\ target.kind = "patch"
  /\ Registry = Chalk
  /\ current = Release(2, 4, 1)
  /\ result = {Release(2, 4, 2)}

----------------------------------------------------------------------------
\* Properties of the resolution cache

\* The lookups of a key, and those that found no entry within its lifetime.
LookupsOf(k) == {w \in Lookups : lookups[w].key = k}
Missed(k) == {w \in LookupsOf(k) : lookups[w].pc = "fetching" \/ w \in awaited}
Done(k) == {w \in LookupsOf(k) : lookups[w].pc = "done"}

\* At most one fetch per key; a fetch was started exactly if one is in
\* flight or the cache holds a fetched version set; a lookup awaits only a
\* fetch that was started, and a lookup that has returned has received the
\* version set of the cache entry.
FetchedOnce ==
  \A k \in Keys :
    /\ fetches[k] <= 1
    /\ Missed(k) # {} => fetches[k] = 1
    /\ fetches[k] = 1 <=>
         (InFlight(k) \/ (IsHit(cache[k]) /\ cache[k].value \in Answers))
    /\ \A w \in Done(k) :
         IsHit(cache[k]) /\ lookups[w].got = cache[k].value

AllReceived == \A w \in Lookups : lookups[w].pc = "done"

----------------------------------------------------------------------------
\* Properties of the rollback that starts the iteration over the upgrades

\* The install with all upgrades (exit at log[8]) or the tests with all
\* upgrades (exit at log[10]) failed.
InstallAllFailed == Len(log) >= 8 /\ log[7] = Ev("install") /\ log[8] = Ev("failed")
TestAllFailed ==
  Len(log) >= 10 /\ log[9] = Ev("test") /\ log[10] = Ev("failed")

\* Where the history holds the restore of the package file and the lock file.
RestorePos == IF InstallAllFailed THEN 9 ELSE 11
Restored == (InstallAllFailed \/ TestAllFailed) /\ pc # "catchAll"

\* No upgrade has been installed on its own so far.
NoSingleInstallYet == \A k \in 1..Len(log) : log[k][1] # "installSingle"

\* C18: after a failed install or test with all upgrades, package.json and the
\* lock file are restored from the snapshot before any upgrade is installed
\* on its own: the restore is the next thing in the history, and until the
\* first single install package.json is the loaded package file and the lock
\* file is the saved one, absent when none was saved.
C18_RestoredBeforeIteration ==
  Restored =>
    /\ Len(log) > RestorePos
    /\ log[RestorePos] = Ev("writePkg")
    /\ log[RestorePos + 1] = Ev(IF lockFile = Empty THEN "rmLock" ELSE "writeLock")
    /\ lastPkgFile = pkgFile \/ ~NoSingleInstallYet
    /\ NoSingleInstallYet =>
         /\ manifest = pkgFile
         /\ lockDisk = SavedLockState(lockFile)
         /\ lockFile = Empty => lockDisk = Absent

\* the tests with all upgrades failed after an install that wrote a lock
\* file with the upgrades; the files are restored and the first upgrade is
\* about to be installed on its own
C18_Witness ==
  /\ Restored
  /\ TestAllFailed
  /\ env.lockEnabled
  /\ Len(upgrades) >= 2
  /\ pc = "awaitInstallSingle"
  /\ idx = 1
  /\ log[Len(log)] = <<"installSingle", 1>>
  /\ manifest = {}
  /\ lockDisk = LockOf({})

\* no lock file was saved: none is on disk after the restore
C18_WitnessNoLock ==
  /\ Restored
  /\ InstallAllFailed
  /\ lockFile = Empty
  /\ pc = "loop"
  /\ NoSingleInstallYet
  /\ lockDisk = Absent

\* C19: after the restore the install of the restored package file runs
\* exactly if the install with all upgrades had succeeded and the tests
\* failed; after a failed install with all upgrades the next process is the
\* install of the first upgrade on its own.
C19_ReinstallOnlyAfterTestFailure ==
  Restored =>
    /\ TestAllFailed <=> installAllSuccess
    /\ InstallAllFailed <=> ~installAllSuccess
    /\ pc \in {"reinstall", "awaitReinstall"} => TestAllFailed
    /\ Len(log) = RestorePos + 1 =>
         pc = (IF TestAllFailed THEN "reinstall" ELSE "loop")
    /\ Len(log) > RestorePos + 1 =>
         log[RestorePos + 2] =
           (IF TestAllFailed THEN Ev("install") ELSE <<"installSingle", 1>>)

\* the install with all upgrades failed: the first upgrade is installed on
\* its own right after the restore
C19_Witness ==
  /\ Restored
  /\ InstallAllFailed
  /\ Len(log) = 11
  /\ log[11] = <<"installSingle", 1>>
  /\ pc = "awaitInstallSingle"

\* the tests with all upgrades failed: the restored package file is installed
\* before the first upgrade
C19_WitnessReinstall ==
  /\ Restored
  /\ TestAllFailed
  /\ Len(log) = 15
  /\ log[13] = Ev("install")
  /\ log[14] = Ev("ok")
  /\ log[15] = <<"installSingle", 1>>

----------------------------------------------------------------------------
\* Properties of the iteration over the upgrades

\* The catch of a step has just restored the files for the upgrade n: the
\* lock file was written last for npm, package.json for yarn.
StepFailureHandled ==
  /\ log # <<>>
  /\ log[Len(log)][2] >= 1
  /\ log[Len(log)][1] = (IF Saves THEN "writePkg" ELSE "writeLock")

\* C20: when the failure of a step has been handled the lock file on disk is
\* the saved one: the lock file read after the last passing step, or the one
\* of the snapshot, which is no lock file when none was saved.
C20_LockRestoredToRollbackPoint ==
  StepFailureHandled => lockDisk = SavedLockState(lockFile)

\* the same where a lock file was saved
C20_LockRestoredWhereSaved ==
  (StepFailureHandled /\ lockFile # Empty) => lockDisk = lockFile

\* C21: the handling of a step whose install, prepare script and tests
\* succeeded merges exactly that upgrade into the last package file with
\* passing tests, saves the lock file that is on disk at that moment, reports
\* the upgrade with a check mark and goes on with the next upgrade, without
\* reporting it with a cross.
C21_PassingStepMergedAndCaptured ==
  [][pc = "stepPassed" =>
       /\ lastPkgFile' = lastPkgFile \cup {Name}
       /\ SavedLockState(lockFile') = lockDisk
       /\ accepted' = accepted \cup {Name}
       /\ rejected' = rejected
       /\ pc' = "loop" /\ idx' = idx + 1]_vars

\* the same where a lock file is on disk when the tests of the step pass
C21_PassingStepWithLockFile ==
  [][(pc = "stepPassed" /\ Exists(lockDisk)) =>
       /\ lastPkgFile' = lastPkgFile \cup {Name}
       /\ lockFile' = lockDisk
       /\ accepted' = accepted \cup {Name}
       /\ rejected' = rejected
       /\ pc' = "loop" /\ idx' = idx + 1]_vars

\* C22: when the failure of a step has been handled, package.json on disk is
\* the last package file with passing tests for yarn; for npm the handling
\* of a failure never writes package.json, which stays the loaded one.
C22_ManifestRestoredForYarn ==
  StepFailureHandled =>
    IF Saves
      THEN manifest = lastPkgFile
      ELSE /\ manifest = pkgFile
           /\ \A k \in 1..Len(log) : log[k][1] = "writePkg" => log[k][2] = 0

\* yarn: the first upgrade passed, the second failed after yarn add had
\* written it to package.json; package.json holds the first upgrade only
C22_Witness ==
  /\ StepFailureHandled
  /\ Saves
  /\ accepted = {1}
  /\ rejected = {2}
  /\ 2 \in installed
  /\ manifest = {1}

\* The iteration over the upgrades is under way.
Iterating ==
  pc \in {"loop", "awaitInstallSingle", "prepare", "awaitPrepare", "stepTests",
          "awaitStepTests", "stepPassed", "stepCatch"}
Yarn == options.packageManager = "yarn"

\* C23 as claimed: for npm and yarn alike the install of a single upgrade
\* leaves package.json as it was, and during the iteration package.json is
\* the loaded package file.
C23_SingleInstallNeverPersists ==
  /\ [][pc = "awaitInstallSingle" => manifest' = manifest]_vars
  /\ [](Iterating => manifest = pkgFile)

\* C23 as amended: npm install --no-save leaves package.json as it was, and
\* during the iteration under npm package.json is the loaded package file;
\* a successful yarn add writes the upgrade into package.json, a failed one
\* leaves it, and between the steps under yarn package.json is the last
\* package file with passing tests.
C23_SingleInstallPersistsOnlyForYarn ==
  /\ [][pc = "awaitInstallSingle" =>
         manifest' = (IF Yarn /\ pc' # "stepCatch"
                        THEN manifest \cup {Name}
                        ELSE manifest)]_vars
  /\ []((Iterating /\ ~Yarn) => manifest = pkgFile)
  /\ []((pc = "loop" /\ Yarn) => manifest = lastPkgFile)

\* yarn add of the second upgrade has returned: package.json holds it before
\* its tests have run
C23_Witness ==
  /\ Yarn
  /\ pc = "stepTests"
  /\ idx = 2
  /\ 2 \in manifest
  /\ 2 \notin lastPkgFile
  /\ manifest # pkgFile

\* The dependencies of the single installs started so far, in their order.
SingleInstalls == SelectSeq(log, LAMBDA e : e[1] = "installSingle")

\* The outcome of the step of upgrade d has been handled: the upgrade is in
\* the last package file with passing tests, or the lock file has been
\* written back for it.
Handled(d) ==
  \/ d \in accepted /\ d \in lastPkgFile
  \/ d \in rejected /\ \E k \in 1..Len(log) : log[k] = <<"writeLock", d>>

\* C24: the k-th single install is that of the k-th entry of upgrades, so
\* that no entry is installed twice or out of order; a single install is
\* started only while no other process runs and after the outcome of every
\* earlier entry has been handled; once the loop is over every entry has had
\* its single install.
C24_EveryUpgradeOnceInOrder ==
  /\ [](/\ Len(SingleInstalls) <= Len(upgrades)
        /\ \A k \in 1..Len(SingleInstalls) : SingleInstalls[k][2] = upgrades[k])
  /\ []((Iterating /\ pc # "loop") =>
          /\ Len(SingleInstalls) = idx
          /\ \A k \in 1..(idx - 1) : Handled(upgrades[k]))
  /\ []((pc = "loop") =>
          /\ Len(SingleInstalls) = idx - 1
          /\ running = <<>>
          /\ \A k \in 1..(idx - 1) : Handled(upgrades[k]))
  /\ []((pc \in {"finalInstall", "awaitFinalInstall"} \/ outcome = "Done") =>
          /\ Len(SingleInstalls) = Len(upgrades)
          /\ Range(upgrades) = accepted \cup rejected)

\* three upgrades, the first accepted, the second rejected, the third being
\* installed
C24_Witness ==
  /\ pc = "awaitInstallSingle"
  /\ Len(upgrades) = 3
  /\ idx = 3
  /\ accepted = {1}
  /\ rejected = {2}
  /\ SingleInstalls = <<<<"installSingle", 1>>, <<"installSingle", 2>>,
                        <<"installSingle", 3>>>>

\* The history has an entry at position k and it is e.
At(k, e) == k \in 1..Len(log) /\ log[k] = e

\* C25: in a step whose single install has succeeded, the prepare script is
\* started next if and only if package.json defines one; the tests of a step
\* are started right after the successful prepare script if package.json
\* defines one, and right after the successful single install if not; after
\* a failed prepare script the tests of that step are not started, and the
\* failure of the step is handled next, with the upgrade rejected.
C25_PrepareBetweenInstallAndTests ==
  \A k \in 1..Len(log) :
    LET d == log[k][2] IN
    /\ (log[k][1] = "installSingle" /\ At(k + 1, Ev("ok")) /\ k + 2 <= Len(log)) =>
          log[k + 2] = (IF pkg.prepare THEN <<"prepare", d>> ELSE <<"test", d>>)
    /\ log[k][1] = "prepare" =>
          /\ pkg.prepare
          /\ log[k - 2] = <<"installSingle", d>>
          /\ log[k - 1] = Ev("ok")
          /\ (At(k + 1, Ev("ok")) /\ k + 2 <= Len(log)) => log[k + 2] = <<"test", d>>
          /\ At(k + 1, Ev("failed")) =>
                /\ \A j \in 1..Len(log) : log[j] # <<"test", d>>
                /\ IF k + 2 <= Len(log)
                     THEN log[k + 2] = <<"writeLock", d>> /\ d \in rejected
                     ELSE pc = "stepCatch" /\ Name = d
    /\ (log[k][1] = "test" /\ d >= 1) =>
          /\ log[k - 1] = Ev("ok")
          /\ log[k - 2] = <<(IF pkg.prepare THEN "prepare" ELSE "installSingle"), d>>

\* the prepare script has failed for the first upgrade, which is rejected
\* without its tests, and has succeeded for the second, whose tests run
C25_Witness ==
  /\ pkg.prepare
  /\ pc = "awaitStepTests"
  /\ idx = 2
  /\ rejected = {1}
  /\ \E k \in 1..Len(log) :
       /\ log[k] = <<"prepare", 1>>
       /\ At(k + 1, Ev("failed"))
       /\ At(k + 2, <<"writeLock", 1>>)
  /\ \A j \in 1..Len(log) : log[j] # <<"test", 1>>
  /\ log[Len(log)] = <<"test", 2>>
  /\ log[Len(log) - 2] = <<"prepare", 2>>

\* The loop over the upgrades has been left.
LoopLeft == pc \in {"finalInstall", "awaitFinalInstall"} \/ outcome = "Done"

\* C26: when the loop is left package.json is written, from the last package
\* file with passing tests, if and only if that differs from the loaded
\* package file, and in either case package.json then equals it; the final
\* install is started after that write and nothing is started or written
\* after it; the outcome is Done only after the final install has exited
\* successfully.
C26_PartialSavedThenFinalInstall ==
  /\ [][(pc = "loop" /\ pc' = "finalInstall") =>
         /\ idx > Len(upgrades)
         /\ IF lastPkgFile = pkgFile
              THEN log' = log /\ manifest' = manifest
              ELSE log' = Append(log, <<"writePkg", 0>>)
         /\ manifest' = lastPkgFile]_vars
  /\ [](LoopLeft => manifest = lastPkgFile)
  /\ [](pc = "awaitFinalInstall" => log[Len(log)] = <<"install", 0>>)
  /\ [](outcome = "Done" =>
          /\ pc = "exit"
          /\ log[Len(log)] = Ev("ok")
          /\ log[Len(log) - 1] = <<"install", 0>>
          /\ (lastPkgFile # pkgFile) <=> (log[Len(log) - 2] = <<"writePkg", 0>>)
          /\ installed = lastPkgFile)

\* Done with the first of two upgrades saved to package.json
C26_Witness ==
  /\ outcome = "Done"
  /\ ~Yarn
  /\ accepted = {1}
  /\ rejected = {2}
  /\ manifest = {1}
  /\ pkgFile = {}
  /\ log[Len(log) - 2] = <<"writePkg", 0>>

\* The initial install has been started and the upgrades are not yet asked for.
Verifying ==
  pc \in {"awaitInitialInstall", "saveLockFile", "initialTests", "awaitInitialTests"}

\* C27 as claimed: once the initial install has been started, the package
\* file and the lock file are both saved, the saved lock file being the one
\* on disk before the initial install; the initial tests start after the
\* initial install.
C27_BothSavedBeforeInitialInstall ==
  /\ Verifying =>
       /\ pkgFile = manifest
       /\ SavedLockState(lockFile) = startLock
  /\ pc = "awaitInitialTests" => log = <<<<"install", 0>>, Ev("ok"), <<"test", 0>>>>

\* C27 as amended: the package file is loaded before the initial install is
\* started, when no lock file is saved yet; the lock file is saved after the
\* initial install has exited successfully and before the initial tests are
\* started, and is the lock file that install has left on disk; the initial
\* tests start after the initial install.
C27_LockSavedAfterInitialInstall ==
  /\ [](Verifying => pkgFile = manifest)
  /\ [](pc \in {"initialInstall", "awaitInitialInstall", "saveLockFile"} =>
          lockFile = Empty)
  /\ [][pc = "saveLockFile" =>
         /\ log = <<<<"install", 0>>, Ev("ok")>>
         /\ lockDisk = (IF env.lockEnabled THEN LockOf(manifest) ELSE startLock)
         /\ SavedLockState(lockFile') = lockDisk
         /\ log' = log]_vars
  /\ [](pc \in {"initialTests", "awaitInitialTests"} =>
          SavedLockState(lockFile) = lockDisk)
  /\ [](pc = "awaitInitialTests" =>
          log = <<<<"install", 0>>, Ev("ok"), <<"test", 0>>>>)

\* the initial tests run with the saved lock file that the initial install
\* has created
C27_Witness ==
  /\ pc = "awaitInitialTests"
  /\ startLock = Absent
  /\ lockFile # Empty
  /\ SavedLockState(lockFile) = lockDisk

\* C28: while the tests of a step run, the upgrades installed are exactly
\* the upgrades accepted before plus the one of the step: no rejected
\* upgrade is installed and every accepted one is.
C28_TestedWithAcceptedUpgrades ==
  pc = "awaitStepTests" =>
    /\ installed = accepted \cup {Name}
    /\ installed \cap rejected = {}

\* C28 for a package manager whose single install saves to package.json and
\* with a lock file to save after a passing step: the upgrades installed
\* while the tests of a step run are the accepted ones plus that of the step.
C28_TestedWithAcceptedUpgradesYarn ==
  (pc = "awaitStepTests" /\ Yarn /\ accepted \cap rejected = {}) =>
    /\ installed = accepted \cup {Name}
    /\ installed \cap rejected = {}

\* The upgrade of all dependencies at once: install and tests.
UpgradingAll == pc \in {"run", "installAll", "awaitInstallAll", "testAll", "awaitTestAll"}

\* The files have been restored after the failure of the upgrade of all
\* dependencies, or are about to be.
Bisecting ==
  \/ pc \in {"catchAll", "reinstall", "awaitReinstall", "finalInstall", "awaitFinalInstall"}
  \/ Iterating

\* The number of entries e in the history.
Occurrences(e) == Cardinality({k \in 1..Len(log) : log[k] = e})

\* C29: every session ends, with one of the outcomes UpToDate, VerifiedAll,
\* Done and Fatal; no upgrade has more than one single install, and only
\* upgrades of the upgrade map have one; after the failure of the upgrade of
\* all dependencies its install and its tests are not entered again.
C29_SessionTerminates ==
  /\ <>(pc = "exit" /\ outcome \in {"UpToDate", "VerifiedAll", "Done", "Fatal"})
  /\ [](pc = "exit" <=> outcome # "Running")
  /\ [](\A d \in Deps : Occurrences(<<"installSingle", d>>) <=
                           (IF d \in Range(upgrades) THEN 1 ELSE 0))
  /\ [][Bisecting => ~UpgradingAll']_vars
  /\ [](Occurrences(<<"test", 0>>) <= 2 /\ Occurrences(<<"install", 0>>) <= 4)

\* Done after three upgrades with one single install each
C29_Witness ==
  /\ outcome = "Done"
  /\ pc = "exit"
  /\ Len(upgrades) = 3
  /\ \A d \in 1..3 : Occurrences(<<"installSingle", d>>) = 1

\* The session passes the validation of loadPackageFile.
Validated ==
  /\ ~options.packageData
  /\ ~options.packageFile
  /\ pkg.valid
  /\ options.doctorTest \/ pkg.test

\* C30: a session that does not pass the validation starts no process and
\* writes no file, and ends as Fatal in its first step: its history stays
\* empty, package.json and the lock file stay as they were and nothing is
\* installed; any session with a process started or a file written has
\* passed the validation.
C30_NothingRunsUnlessValidated ==
  /\ ~Validated =>
       /\ log = <<>>
       /\ running = <<>>
       /\ manifest = {} /\ lockDisk = startLock /\ installed = {}
       /\ \/ pc = "load" /\ outcome = "Running"
          \/ pc = "exit" /\ outcome = "Fatal"
                /\ diag \in {"packageDataNotAllowed", "invalidPackageJson", "noTestScript"}
  /\ (log # <<>> \/ pc \notin {"load", "exit"}) => Validated

\* aborted for the packageFile option with an otherwise valid package file
C30_Witness ==
  /\ options.packageFile
  /\ ~options.packageData
  /\ pkg.valid
  /\ pkg.test
  /\ pc = "exit"
  /\ outcome = "Fatal"
  /\ diag = "packageDataNotAllowed"
  /\ log = <<>>

====
